---- MODULE Spec2Model ----
(***************************************************************************)
(* State-machine model of the diabetes tracker's unit-aware data layer:    *)
(* DataManager (modules/database.py), UnitConverter                        *)
(* (modules/unit_converter.py) and the Flask handlers of app.py that call  *)
(* them.                                                                   *)
(*                                                                         *)
(* Glucose values are one-decimal numbers and are represented in tenths:   *)
(* 1200 stands for 120.0 mg/dL, 67 for 6.7 mmol/L.  Time is counted in     *)
(* days.  Every access to the durable store takes a parameter `up` (is the *)
(* PostgreSQL server answering during this call); the session succeeds     *)
(* only if db_available /\ up.                                             *)
(***************************************************************************)
EXTENDS Integers, Sequences, FiniteSets, TLC

(***************************************************************************)
(* Bounds of the model                                                     *)
(***************************************************************************)
MaxEntries == 2      \* uuid4 identifiers issued during one run
MaxTicks == 1        \* days the clock advances during one run
MaxDate == 1         \* user-supplied dates range over day 0..MaxDate
MaxConvert == 300    \* values given to the converter range over 0..MaxConvert
MaxThreads == 2      \* requests handled at the same time

(***************************************************************************)
(* Program constants                                                       *)
(***************************************************************************)
FactorNum == 18018   \* CONVERSION_FACTOR = 18.018 = FactorNum / FactorDen
FactorDen == 1000
MinMgDl == 500       \* 50.0 mg/dL
MaxMgDl == 5000      \* 500.0 mg/dL
MinMmolL == 28       \* 2.8 mmol/L
MaxMmolL == 278      \* 27.8 mmol/L
WeekDays == 7        \* timedelta(days=7)
RecentLimit == 5     \* get_recent_entries(username, limit=5)

(***************************************************************************)
(* Inputs                                                                  *)
(***************************************************************************)
Usernames == {"alice", "bob"}
Units == {"mg/dL", "mmol/L"}
UnitInputs == Units \cup {"stone"}          \* "stone": any other string
\* Values given to the converter (0.0 .. 30.0 when read as mmol/L)
ConvertValues == 0..MaxConvert
\* Glucose values given to the recommendation engine: both sides of every
\* threshold of its canned texts (70, 100, 140, 200, 250)
AiValues == {699, 700, 999, 1000, 1399, 1400, 2000, 2001, 2500, 2501}
AiMethods ==
    {"get_recommendation", "get_meal_suggestions",
     "get_exercise_recommendations"}
\* Passwords: "pw1" is shorter than the six characters a new password needs.
Passwords == {"pw1", "secret2"}
\* blood_sugar inputs, in tenths
MgDlValues == {499, 500, 1200, 5000, 5001}
MmolLValues == {27, 67, 278}
Meal == "oats"
Exercise == "walk"
Dates == 0..MaxDate
BadDate == 0 - 1                            \* a string fromisoformat rejects
DateInputs == Dates \cup {BadDate}
\* The bodies of POST /api/log-entry: every value with its unit and a date,
\* and one body for each way of being malformed (blood_sugar 0 and meal ""
\* are the falsy fields of `not all([...])`).
WellFormed ==
    [blood_sugar : MgDlValues, units : {"mg/dL"}, meal : {Meal}, date : Dates]
    \cup
    [blood_sugar : MmolLValues, units : {"mmol/L"}, meal : {Meal}, date : Dates]
Malformed ==
    {[blood_sugar |-> 0, units |-> "mg/dL", meal |-> Meal, date |-> 0],
     [blood_sugar |-> 1200, units |-> "mg/dL", meal |-> "", date |-> 0],
     [blood_sugar |-> 1200, units |-> "mg/dL", meal |-> Meal, date |-> BadDate],
     [blood_sugar |-> 1200, units |-> "stone", meal |-> Meal, date |-> 0]}
LogEntryBodies == WellFormed \cup Malformed
Password == "pw1"
\* The requests the threaded server handles at the same time; thread
\* Writer is the one that issues the changes of preference, so that the
\* sets of one user follow each other.
Threads == 1..MaxThreads
Writers == {1}
NoCall == [op |-> "none"]                   \* no call made yet
NoUnits == "absent"                         \* key not in _fallback_user_units
ValueError == 0 - 1                         \* convert_to_user_units raised

VARIABLES
    db_available,          \* DataManager.db_available, set by __init__
    users,                 \* table users: username -> row
    entries,               \* table diabetes_entries: set of rows
    next_id,               \* uuid4: the next fresh identifier
    fallback_user_units,   \* DataManager._fallback_user_units
    now,                   \* datetime.utcnow(), in days
    pending,               \* the read request between its two store calls
    last_set,              \* history: the unit of the last completed set
    deleted,               \* history: the identifiers delete_entry removed
    call,                  \* the last call of a function with no state
    threads,               \* the requests served concurrently, step by step
    registered             \* history: register_user calls that returned True

vars == <<db_available, users, entries, next_id, fallback_user_units, now,
          pending, last_set, deleted, call, threads, registered>>

(***************************************************************************)
(* UnitConverter                                                           *)
(***************************************************************************)
\* round(num / den) for num >= 0, den > 0.  Python's round(x, 1) on the
\* float products and quotients of one-decimal values by 18.018 agrees
\* with this for every value in 0.0 .. 2000.0 (the only exact ties,
\* multiples of 25.0 mmol/L, have a float product just above the tie).
RoundDiv(num, den) == (2 * num + den) \div (2 * den)

\* Mutant: the quotient is truncated to one decimal.
mg_dl_to_mmol_l_truncate(mg_dl_value) ==
    (mg_dl_value * FactorDen) \div FactorNum

mg_dl_to_mmol_l(mg_dl_value) == RoundDiv(mg_dl_value * FactorDen, FactorNum)

\* Mutant: the factor rounded to 18.
mmol_l_to_mg_dl_factor_18(mmol_l_value) == mmol_l_value * 18

mmol_l_to_mg_dl(mmol_l_value) == RoundDiv(mmol_l_value * FactorNum, FactorDen)

\* Mutant: an unsupported pair of units returns the value.
convert_to_user_units_lenient(value, from_units, to_units) ==
    IF from_units = "mg/dL" /\ to_units = "mmol/L"
    THEN mg_dl_to_mmol_l(value)
    ELSE IF from_units = "mmol/L" /\ to_units = "mg/dL"
         THEN mmol_l_to_mg_dl(value)
    ELSE value

convert_to_user_units(value, from_units, to_units) ==
    IF from_units = to_units THEN value
    ELSE IF from_units = "mg/dL" /\ to_units = "mmol/L"
         THEN mg_dl_to_mmol_l(value)
    ELSE IF from_units = "mmol/L" /\ to_units = "mg/dL"
         THEN mmol_l_to_mg_dl(value)
    ELSE ValueError

get_validation_range(units) ==
    IF units = "mg/dL" THEN <<MinMgDl, MaxMgDl>>
    ELSE IF units = "mmol/L" THEN <<MinMmolL, MaxMmolL>>
    ELSE <<ValueError, ValueError>>

(***************************************************************************)
(* DataManager                                                             *)
(***************************************************************************)
NoRow == [exists |-> FALSE, password_hash |-> "", preferred_units |-> ""]

\* Mutant: every call tries the server, whatever _initialize_database found.
Session_retry(up) == up

\* get_db_session: the mock session raises when db_available is False; a
\* real session raises when the server does not answer.
Session(up) == db_available /\ up

\* get_user_preferred_units: the value returned ...
get_user_preferred_units(username, up) ==
    IF fallback_user_units[username] # NoUnits
    THEN fallback_user_units[username]
    ELSE IF db_available /\ Session(up) /\ users[username].exists
              /\ users[username].preferred_units # ""
         THEN users[username].preferred_units
    ELSE "mg/dL"

\* Mutant: the default is cached as well.
get_user_preferred_units_cache_default(username, up) ==
    IF fallback_user_units[username] = NoUnits
    THEN [fallback_user_units EXCEPT
            ![username] = get_user_preferred_units(username, up)]
    ELSE fallback_user_units

\* ... and _fallback_user_units after the call.
get_user_preferred_units_cache(username, up) ==
    IF fallback_user_units[username] = NoUnits
       /\ db_available /\ Session(up) /\ users[username].exists
       /\ users[username].preferred_units # ""
    THEN [fallback_user_units EXCEPT ![username] = users[username].preferred_units]
    ELSE fallback_user_units

\* Mutant: the fallback storage is written only when there is no database.
update_user_preferred_units_cache_if_down(username, units) ==
    IF db_available THEN fallback_user_units
    ELSE [fallback_user_units EXCEPT ![username] = units]

\* update_user_preferred_units: _fallback_user_units after the call ...
update_user_preferred_units_cache(username, units) ==
    [fallback_user_units EXCEPT ![username] = units]

\* ... and table users after the call (the sync is skipped when the store
\* is not available, the row is missing, or the session raises).
update_user_preferred_units_users(username, units, up) ==
    IF db_available /\ Session(up) /\ users[username].exists
    THEN [users EXCEPT ![username].preferred_units = units]
    ELSE users

\* Mutant: a session error is swallowed.
save_entry_raises_bad_date_only(date, up) == date = BadDate

\* save_entry raises on an unparsable date and on any session error.
save_entry_raises(date, up) == date = BadDate \/ ~Session(up)

\* entry_id = str(uuid.uuid4()) is drawn before anything can fail.
DiabetesEntry(username, blood_sugar, meal, exercise, date) ==
    [entry_id |-> next_id, username |-> username, blood_sugar |-> blood_sugar,
     meal |-> meal, exercise |-> exercise, date |-> date, created_at |-> now]

\* save_entry: table diabetes_entries after the call.
save_entry(username, blood_sugar, meal, exercise, date, up) ==
    IF save_entry_raises(date, up) THEN entries
    ELSE entries \cup {DiabetesEntry(username, blood_sugar, meal, exercise, date)}

EntryIds == {e.entry_id : e \in entries}

\* Mutant: the rows are filtered by the owner of the entry.
delete_entry_entries_of_owner(entry_id, up) ==
    IF Session(up) /\ entry_id \in EntryIds
    THEN {e \in entries :
            \A d \in entries : d.entry_id = entry_id => e.username # d.username}
    ELSE entries

\* delete_entry: the value returned and the table after the call.
delete_entry(entry_id, up) == Session(up) /\ entry_id \in EntryIds

delete_entry_entries(entry_id, up) ==
    IF delete_entry(entry_id, up)
    THEN {e \in entries : e.entry_id # entry_id}
    ELSE entries

UserEntries(username) == {e \in entries : e.username = username}

\* Every listing of the rows of S; ORDER BY leaves the order of rows with
\* equal dates to the database.
Orderings(S) ==
    {f \in [1..Cardinality(S) -> S] :
        \A i, j \in 1..Cardinality(S) : i # j => f[i] # f[j]}

\* Mutant: ORDER BY date ASC.
get_user_history_asc(username, up) ==
    IF ~Session(up) THEN {<<>>}
    ELSE {f \in Orderings(UserEntries(username)) :
            \A i \in 1..(Len(f) - 1) : f[i].date <= f[i + 1].date}

\* get_user_history: the possible results (ORDER BY date DESC).
get_user_history(username, up) ==
    IF ~Session(up) THEN {<<>>}
    ELSE {f \in Orderings(UserEntries(username)) :
            \A i \in 1..(Len(f) - 1) : f[i].date >= f[i + 1].date}

\* Mutant: a session error propagates, as it does in save_entry.
read_raises_session_error(up) == ~Session(up)

\* get_user_history, get_recent_entries, get_user_stats and get_chart_data
\* catch SQLAlchemyError and Exception alike: none of them raises.
read_raises(up) == FALSE

\* get_recent_entries: the possible results (ORDER BY date DESC LIMIT limit).
get_recent_entries(username, limit, up) ==
    {SubSeq(f, 1, IF Len(f) < limit THEN Len(f) ELSE limit) :
        f \in get_user_history(username, up)}

\* Mutant: the rows are listed newest first, as in the history.
chart_rows_desc(username, up) == get_user_history(username, up)

\* get_chart_data: the possible row orders (ORDER BY date ASC).
chart_rows(username, up) ==
    IF ~Session(up) THEN {<<>>}
    ELSE {f \in Orderings(UserEntries(username)) :
            \A i \in 1..(Len(f) - 1) : f[i].date <= f[i + 1].date}

\* The calendar date a day number stands for: day 0 is 2023-12-31 and day d,
\* for d in 1..31, is 2024-01-d (what strptime makes of the request's string).
Calendar(date) ==
    IF date = 0 THEN [year |-> 2023, month |-> 12, day |-> 31]
    ELSE [year |-> 2024, month |-> 1, day |-> date]

\* entry.date.strftime("%m/%d") and entry.date.strftime("%Y-%m-%d")
strftime_md(date) == <<Calendar(date).month, Calendar(date).day>>

strftime_ymd(date) ==
    <<Calendar(date).year, Calendar(date).month, Calendar(date).day>>

\* Mutant: the values are taken from the newest-first listing.
get_chart_data_data_desc(rows) ==
    [labels |-> [i \in 1..Len(rows) |-> strftime_md(rows[i].date)],
     data   |-> [i \in 1..Len(rows) |-> rows[Len(rows) + 1 - i].blood_sugar],
     dates  |-> [i \in 1..Len(rows) |-> strftime_ymd(rows[i].date)]]

get_chart_data(rows) ==
    [labels |-> [i \in 1..Len(rows) |-> strftime_md(rows[i].date)],
     data   |-> [i \in 1..Len(rows) |-> rows[i].blood_sugar],
     dates  |-> [i \in 1..Len(rows) |-> strftime_ymd(rows[i].date)]]

RECURSIVE SumSeq(_)
SumSeq(s) == IF s = <<>> THEN 0 ELSE Head(s) + SumSeq(Tail(s))

\* round(x, 1) of a mean that lies exactly between two one-decimal values
\* is decided by the binary float of the mean, which lies on either side.
\* For two values a and b the float is (a/10 + b/10) / 2; these are the
\* pairs of the model's values with an odd sum, by the side Python rounds to.
RoundsUp ==
    {{499, 500}, {499, 1200}, {500, 1403}, {1200, 1403}, {1207, 5000}}

RoundsDown ==
    {{499, 1402}, {499, 5000}, {500, 1205}, {500, 1207}, {1200, 1205},
     {1200, 1207}, {1205, 1402}, {1205, 5000}, {1207, 1402}, {1402, 1403},
     {1403, 5000}}

\* Mutant: a tie is always rounded up.
RoundAvg_half_up(values) == {RoundDiv(SumSeq(values), Len(values))}

\* round(sum(values) / len(values), 1): the possible results (one, except
\* for a tie that the two tables do not decide).
RoundAvg(values) ==
    LET n == Len(values)
        sum == SumSeq(values)
        lower == sum \div n
        pair == {values[i] : i \in 1..n}
    IN  IF (2 * sum) % (2 * n) # n THEN {RoundDiv(sum, n)}
        ELSE IF n = 2 /\ pair \in RoundsUp THEN {lower + 1}
        ELSE IF n = 2 /\ pair \in RoundsDown THEN {lower}
        ELSE {lower, lower + 1}

\* get_user_stats: the possible results.
get_user_stats(username, up) ==
    LET rows == UserEntries(username)
        zero == [total_entries |-> 0, avg_blood_sugar |-> 0,
                 entries_this_week |-> 0]
    IN  IF ~Session(up) \/ rows = {} THEN {zero}
        ELSE LET listing == CHOOSE f \in Orderings(rows) : TRUE
                 values == [i \in 1..Len(listing) |-> listing[i].blood_sugar]
             IN  {[total_entries |-> Cardinality(rows),
                   avg_blood_sugar |-> avg,
                   entries_this_week |->
                       Cardinality({e \in rows : e.date >= now - WeekDays})] :
                  avg \in RoundAvg(values)}

(***************************************************************************)
(* AIRecommendationEngine                                                  *)
(***************************************************************************)
\* A text is the canned variant it is made from, the glucose value its
\* f-string interpolates (NoValue when it interpolates none), its number of
\* words, and whether GPT_ERROR_MESSAGE is put in front of it.
NoValue == 0 - 1

NoText == [prefix |-> FALSE, variant |-> "", value |-> NoValue, words |-> 0]

\* response.choices[0].message.content.strip(): whatever the generator wrote.
GeneratedText ==
    [prefix |-> FALSE, variant |-> "generated", value |-> NoValue, words |-> 0]

\* GPT_ERROR_MESSAGE + text
gpt_error_message(text) == [text EXCEPT !.prefix = TRUE]

\* _limit_response_length(text, max_words)
limit_response_length(text, max_words) ==
    IF text.words <= max_words THEN text
    ELSE [text EXCEPT !.words = max_words]

\* Mutant: 200 belongs to the high band.
get_basic_recommendation_ge_200(blood_sugar) ==
    IF blood_sugar < 700
    THEN [prefix |-> FALSE, variant |-> "low", value |-> blood_sugar,
          words |-> 29]
    ELSE IF blood_sugar >= 2000
    THEN [prefix |-> FALSE, variant |-> "elevated", value |-> blood_sugar,
          words |-> 26]
    ELSE [prefix |-> FALSE, variant |-> "good", value |-> blood_sugar,
          words |-> 28]

\* _get_basic_recommendation (blood_sugar in tenths: 700 is 70)
get_basic_recommendation(blood_sugar) ==
    IF blood_sugar < 700
    THEN [prefix |-> FALSE, variant |-> "low", value |-> blood_sugar,
          words |-> 29]
    ELSE IF blood_sugar > 2000
    THEN [prefix |-> FALSE, variant |-> "elevated", value |-> blood_sugar,
          words |-> 26]
    ELSE [prefix |-> FALSE, variant |-> "good", value |-> blood_sugar,
          words |-> 28]

\* _get_basic_meal_suggestions
get_basic_meal_suggestions(blood_sugar) ==
    IF blood_sugar < 1000
    THEN limit_response_length(
             [prefix |-> FALSE, variant |-> "normal", value |-> NoValue,
              words |-> 47], 200)
    ELSE IF blood_sugar < 1400
    THEN limit_response_length(
             [prefix |-> FALSE, variant |-> "post_meal_normal",
              value |-> NoValue, words |-> 40], 200)
    ELSE limit_response_length(
             [prefix |-> FALSE, variant |-> "elevated", value |-> NoValue,
              words |-> 40], 200)

\* _get_basic_exercise_recommendations
get_basic_exercise_recommendations(blood_sugar) ==
    IF blood_sugar < 700
    THEN limit_response_length(
             [prefix |-> FALSE, variant |-> "low", value |-> NoValue,
              words |-> 22], 200)
    ELSE IF blood_sugar > 2500
    THEN limit_response_length(
             [prefix |-> FALSE, variant |-> "high", value |-> NoValue,
              words |-> 26], 200)
    ELSE limit_response_length(
             [prefix |-> FALSE, variant |-> "safe", value |-> blood_sugar,
              words |-> 36], 200)

\* Does the generator answer?  Only with an API key, a client that __init__
\* could build (otherwise self.client is None and the call raises
\* AttributeError), and a call that does not raise.
Generated(api_key, client, raises) == api_key /\ client /\ ~raises

\* get_recommendation: the generator's text when it answers, otherwise
\* GPT_ERROR_MESSAGE followed by the canned text.
get_recommendation(blood_sugar, generated) ==
    IF generated THEN GeneratedText
    ELSE gpt_error_message(get_basic_recommendation(blood_sugar))

\* get_meal_suggestions
get_meal_suggestions(blood_sugar, generated) ==
    IF generated THEN GeneratedText
    ELSE gpt_error_message(get_basic_meal_suggestions(blood_sugar))

\* get_exercise_recommendations: without an API key the canned text follows
\* GPT_ERROR_MESSAGE; after an exception it is returned as it is.
get_exercise_recommendations(blood_sugar, api_key, generated) ==
    IF ~api_key
    THEN gpt_error_message(get_basic_exercise_recommendations(blood_sugar))
    ELSE IF generated THEN GeneratedText
    ELSE get_basic_exercise_recommendations(blood_sugar)

(***************************************************************************)
(* AuthManager                                                             *)
(***************************************************************************)
hash_password(password) == <<"sha256", password>>

\* user_exists: False on any session error.
user_exists(username, up) == Session(up) /\ users[username].exists

\* register_user: the value returned (a second row with the same primary
\* key is an IntegrityError, caught like every other error).
register_user(username, up_check, up_insert) ==
    /\ ~user_exists(username, up_check)
    /\ Session(up_insert)
    /\ ~users[username].exists

\* Mutant: the insert replaces the row that has the same username.
register_user_insert_merge(username, up) == Session(up)

\* register_user, its second session: add and commit succeed unless the
\* session raises or a row with this primary key is there (IntegrityError).
register_user_insert(username, up) == Session(up) /\ ~users[username].exists

\* The row register_user adds: preferred_units takes the column's default.
User(password) ==
    [exists |-> TRUE, password_hash |-> hash_password(password),
     preferred_units |-> "mg/dL"]

\* login_user: False on any session error.
login_user(username, password, up) ==
    /\ Session(up)
    /\ users[username].exists
    /\ users[username].password_hash = hash_password(password)

\* Mutant: the old password is not verified.
change_password_no_verify(username, old_password, new_password, up_login, up_update) ==
    Session(up_update) /\ users[username].exists

\* change_password: the value returned (the old password is verified by
\* login_user in a session of its own).
change_password(username, old_password, new_password, up_login, up_update) ==
    /\ login_user(username, old_password, up_login)
    /\ Session(up_update)
    /\ users[username].exists

\* change_password: table users after the call.
change_password_users(username, old_password, new_password, up_login, up_update) ==
    IF change_password(username, old_password, new_password, up_login,
                       up_update)
    THEN [users EXCEPT ![username].password_hash = hash_password(new_password)]
    ELSE users

(***************************************************************************)
(* Flask handlers (app.py).  The response of a handler is an operator of   *)
(* the state the request finds and of its inputs; the action of the same   *)
(* name is what the request does to the state.  The three read handlers    *)
(* are two steps, so that other requests run between the read of the       *)
(* preference and the query.                                               *)
(***************************************************************************)
Idle == [pc |-> "idle"]

\* POST /api/register
register_response(username, up_check, up_insert) ==
    [status |-> IF register_user(username, up_check, up_insert)
                THEN 201 ELSE 409]

Register(username, up_check, up_insert) ==
    /\ users' = IF register_user(username, up_check, up_insert)
                THEN [users EXCEPT ![username] =
                        [exists |-> TRUE,
                         password_hash |-> hash_password(Password),
                         preferred_units |-> "mg/dL"]]
                ELSE users
    /\ registered' = IF register_user(username, up_check, up_insert)
                     THEN [registered EXCEPT ![username] = @ + 1]
                     ELSE registered
    /\ UNCHANGED <<threads, deleted, call, db_available, entries, next_id,
                   fallback_user_units, now, pending, last_set>>

\* POST /api/login
login_response(username, password, up) ==
    [status |-> IF login_user(username, password, up) THEN 200 ELSE 401]

Login(username, password, up) ==
    /\ login_response(username, password, up).status \in {200, 401}
    /\ UNCHANGED vars

\* POST /api/change-password: a new password of fewer than 6 characters is
\* a 400 before anything is looked up.
change_password_response(username, old_password, new_password, up1, up2) ==
    [status |->
        IF Len(new_password) < 6 THEN 400
        ELSE IF change_password(username, old_password, new_password,
                                up1, up2)
             THEN 200 ELSE 401]

ChangePassword(username, old_password, new_password, up_login, up_update) ==
    /\ users' =
           IF change_password_response(username, old_password, new_password,
                                       up_login, up_update).status = 400
           THEN users
           ELSE change_password_users(username, old_password, new_password,
                                      up_login, up_update)
    /\ UNCHANGED <<threads, registered, deleted, call, db_available, entries, next_id,
                   fallback_user_units, now, pending, last_set>>

\* The value log_entry stores: the input converted to mg/dL.
blood_sugar_mg_dl(blood_sugar, input_units, user_units) ==
    IF input_units # "mg/dL"
    THEN convert_to_user_units(blood_sugar, input_units, "mg/dL")
    ELSE blood_sugar

\* Mutant: the upper bound is not checked.
out_of_range_no_upper(value) == value < get_validation_range("mg/dL")[1]

\* Mutant: the bounds are exclusive.
out_of_range_exclusive(value) ==
    \/ value <= get_validation_range("mg/dL")[1]
    \/ value >= get_validation_range("mg/dL")[2]

\* log_entry's range check.
out_of_range(value) ==
    \/ value < get_validation_range("mg/dL")[1]
    \/ value > get_validation_range("mg/dL")[2]

\* Mutant: the stored value is returned as it is.
convert_for_display_none(value, user_units, username) == value

\* Mutant: the preference is fetched again for every value.
convert_for_display_refetch(value, user_units, username) ==
    LET units_now == get_user_preferred_units(username, FALSE)
    IN  IF units_now # "mg/dL"
        THEN convert_to_user_units(value, "mg/dL", units_now)
        ELSE value

\* The conversion of a stored value for display (history, chart, stats,
\* recommendation); user_units is the preference the handler has read.
convert_for_display(value, user_units, username) ==
    IF user_units # "mg/dL"
    THEN convert_to_user_units(value, "mg/dL", user_units)
    ELSE value

\* How far log_entry gets: "required" and "range" return 400, "convert",
\* "save" and "advice" are exceptions caught as 500, "done" returns 201.
log_entry_outcome(username, body, up_units, up_save) ==
    LET user_units == get_user_preferred_units(username, up_units)
        mg_dl == blood_sugar_mg_dl(body.blood_sugar, body.units, user_units)
    IN  IF body.blood_sugar = 0 \/ body.meal = "" THEN "required"
        ELSE IF mg_dl = ValueError THEN "convert"
        ELSE IF out_of_range(mg_dl) THEN "range"
        ELSE IF save_entry_raises(body.date, up_save) THEN "save"
        ELSE IF convert_for_display(mg_dl, user_units, username) = ValueError
             THEN "advice"
        ELSE "done"

log_entry_response(username, body, up_units, up_save, generated) ==
    LET user_units == get_user_preferred_units(username, up_units)
        mg_dl == blood_sugar_mg_dl(body.blood_sugar, body.units, user_units)
        outcome == log_entry_outcome(username, body, up_units, up_save)
    IN  IF outcome = "done"
        THEN [status |-> 201, error |-> "", entry_id |-> next_id,
              recommendation |->
                  get_recommendation(
                      convert_for_display(mg_dl, user_units, username),
                      generated)]
        ELSE [status |-> IF outcome \in {"required", "range"} THEN 400 ELSE 500,
              error |-> outcome, entry_id |-> 0, recommendation |-> NoText]

\* Mutant: an entry of the same user and date is replaced.
log_entry_entries_upsert(username, body, up_units, up_save) ==
    LET user_units == get_user_preferred_units(username, up_units)
        mg_dl == blood_sugar_mg_dl(body.blood_sugar, body.units, user_units)
        outcome == log_entry_outcome(username, body, up_units, up_save)
    IN  IF outcome \in {"advice", "done"}
        THEN {e \in entries : e.username # username \/ e.date # body.date}
             \cup {DiabetesEntry(username, mg_dl, body.meal, Exercise,
                                 body.date)}
        ELSE entries

\* Table diabetes_entries after log_entry.
log_entry_entries(username, body, up_units, up_save) ==
    LET user_units == get_user_preferred_units(username, up_units)
        mg_dl == blood_sugar_mg_dl(body.blood_sugar, body.units, user_units)
        outcome == log_entry_outcome(username, body, up_units, up_save)
    IN  IF outcome \in {"advice", "done"}
        THEN save_entry(username, mg_dl, body.meal, Exercise, body.date, up_save)
        ELSE entries

LogEntry(username, body, up_units, up_save) ==
    LET outcome == log_entry_outcome(username, body, up_units, up_save)
    IN
    /\ next_id <= MaxEntries
    /\ fallback_user_units' =
           IF outcome = "required" THEN fallback_user_units
           ELSE get_user_preferred_units_cache(username, up_units)
    /\ entries' = log_entry_entries(username, body, up_units, up_save)
    /\ next_id' = IF outcome \in {"save", "advice", "done"}
                  THEN next_id + 1 ELSE next_id
    /\ UNCHANGED <<threads, registered, deleted, call, db_available, users, now, pending, last_set>>

\* Mutant: every unit is accepted.
valid_units_any(units) == TRUE

\* POST /api/update-units: `units not in ['mg/dL', 'mmol/L']` is a 400.
valid_units(units) == units \in {"mg/dL", "mmol/L"}

update_units_response(username, units, up) ==
    [status |-> IF valid_units(units) THEN 200 ELSE 400]

\* _fallback_user_units and table users after update_units.
update_units_cache(username, units) ==
    IF valid_units(units)
    THEN update_user_preferred_units_cache(username, units)
    ELSE fallback_user_units

update_units_users(username, units, up) ==
    IF valid_units(units)
    THEN update_user_preferred_units_users(username, units, up)
    ELSE users

UpdateUnits(username, units, up) ==
    /\ fallback_user_units' = update_units_cache(username, units)
    /\ users' = update_units_users(username, units, up)
    /\ last_set' = IF valid_units(units)
                   THEN [last_set EXCEPT ![username] = units]
                   ELSE last_set
    /\ UNCHANGED <<threads, registered, deleted, call, db_available, entries, next_id, now, pending>>

\* GET /api/user-preferences/<username>
get_user_preferences_response(username, up) ==
    [status |-> 200, preferred_units |-> get_user_preferred_units(username, up)]

GetUserPreferences(username, up) ==
    /\ fallback_user_units' = get_user_preferred_units_cache(username, up)
    /\ UNCHANGED <<threads, registered, deleted, call, db_available, users, entries, next_id, now, pending,
                   last_set>>

ConvertAll(values, user_units, username) ==
    [i \in 1..Len(values) |->
        convert_for_display(values[i], user_units, username)]

Raised(values) == \E i \in 1..Len(values) : values[i] = ValueError

\* GET /api/history/<username>: the response, given the preference read in
\* the first step and the rows the query returns in the second.
get_history_response(username, user_units, raw_history) ==
    LET data == ConvertAll([i \in 1..Len(raw_history) |->
                               raw_history[i].blood_sugar],
                           user_units, username)
    IN  IF Raised(data) THEN [status |-> 500, history |-> <<>>, units |-> ""]
        ELSE [status |-> 200,
              history |-> [i \in 1..Len(raw_history) |->
                              [raw_history[i] EXCEPT !.blood_sugar = data[i]]],
              units |-> user_units]

\* Mutant: the values are returned as they are stored.
get_chart_data_response_raw(username, user_units, raw_chart_data) ==
    [status |-> 200, labels |-> raw_chart_data.labels,
     data |-> raw_chart_data.data, dates |-> raw_chart_data.dates,
     units |-> user_units]

\* GET /api/chart-data/<username>
get_chart_data_response(username, user_units, raw_chart_data) ==
    LET data == IF user_units # "mg/dL" /\ raw_chart_data.data # <<>>
                THEN ConvertAll(raw_chart_data.data, user_units, username)
                ELSE raw_chart_data.data
    IN  IF Raised(data)
        THEN [status |-> 500, labels |-> <<>>, data |-> <<>>, dates |-> <<>>,
              units |-> ""]
        ELSE [status |-> 200, labels |-> raw_chart_data.labels, data |-> data,
              dates |-> raw_chart_data.dates, units |-> user_units]

\* GET /api/user-stats/<username>
get_user_stats_response(username, user_units, raw_stats) ==
    LET avg == IF user_units # "mg/dL" /\ raw_stats.avg_blood_sugar > 0
               THEN convert_for_display(raw_stats.avg_blood_sugar, user_units,
                                        username)
               ELSE raw_stats.avg_blood_sugar
    IN  IF avg = ValueError
        THEN [status |-> 500, total_entries |-> 0, avg_blood_sugar |-> 0,
              entries_this_week |-> 0, units |-> ""]
        ELSE [status |-> 200, total_entries |-> raw_stats.total_entries,
              avg_blood_sugar |-> avg,
              entries_this_week |-> raw_stats.entries_this_week,
              units |-> user_units]

\* The possible responses of the three read requests: up_units is the
\* server during the read of the preference, up during the query.
get_history_request(username, up_units, up) ==
    IF read_raises(up)
    THEN {[status |-> 500, history |-> <<>>, units |-> ""]}
    ELSE {get_history_response(
              username, get_user_preferred_units(username, up_units), raw) :
          raw \in get_user_history(username, up)}

get_chart_data_request(username, up_units, up) ==
    IF read_raises(up)
    THEN {[status |-> 500, labels |-> <<>>, data |-> <<>>, dates |-> <<>>,
           units |-> ""]}
    ELSE {get_chart_data_response(
              username, get_user_preferred_units(username, up_units),
              get_chart_data(rows)) :
          rows \in chart_rows(username, up)}

get_user_stats_request(username, up_units, up) ==
    IF read_raises(up)
    THEN {[status |-> 500, total_entries |-> 0, avg_blood_sugar |-> 0,
           entries_this_week |-> 0, units |-> ""]}
    ELSE {get_user_stats_response(
              username, get_user_preferred_units(username, up_units), raw) :
          raw \in get_user_stats(username, up)}

\* GET /api/recommendation/<username>: the possible responses.  Without
\* recent entries the answer is the invitation to start logging, and the
\* preference is not read.
get_recommendation_response(username, up_recent, up_units, generated) ==
    {IF recent_data = <<>>
     THEN [status |-> 200,
           recommendation |->
               [prefix |-> FALSE, variant |-> "start_logging",
                value |-> NoValue, words |-> 10]]
     ELSE LET user_units == get_user_preferred_units(username, up_units)
              blood_sugar_for_ai ==
                  convert_for_display(recent_data[1].blood_sugar, user_units,
                                      username)
          IN  IF blood_sugar_for_ai = ValueError
              THEN [status |-> 500, recommendation |-> NoText]
              ELSE [status |-> 200,
                    recommendation |->
                        get_recommendation(blood_sugar_for_ai, generated)] :
     recent_data \in get_recent_entries(username, RecentLimit, up_recent)}

GetRecommendation(username, up_recent, up_units) ==
    /\ fallback_user_units' =
           IF get_recent_entries(username, RecentLimit, up_recent) = {<<>>}
           THEN fallback_user_units
           ELSE get_user_preferred_units_cache(username, up_units)
    /\ UNCHANGED <<threads, registered, deleted, call, db_available, users, entries, next_id, now,
                   pending, last_set>>

\* GET /api/history, /api/chart-data and /api/user-stats as one step each:
\* apart from the response, a read request only fills the cache.
GetHistory(username, up) ==
    /\ pending.pc = "idle"
    /\ fallback_user_units' = get_user_preferred_units_cache(username, up)
    /\ UNCHANGED <<threads, registered, deleted, call, db_available, users, entries, next_id, now, pending,
                   last_set>>

GetChartData(username, up) ==
    /\ pending.pc = "idle"
    /\ fallback_user_units' = get_user_preferred_units_cache(username, up)
    /\ UNCHANGED <<threads, registered, deleted, call, db_available, users, entries, next_id, now, pending,
                   last_set>>

GetUserStats(username, up) ==
    /\ pending.pc = "idle"
    /\ fallback_user_units' = get_user_preferred_units_cache(username, up)
    /\ UNCHANGED <<threads, registered, deleted, call, db_available, users, entries, next_id, now, pending,
                   last_set>>

\* The same three requests in two steps, for the requests that run between
\* the read of the preference and the query.  First step:
\* user_units = data_manager.get_user_preferred_units(username).  The three
\* handlers begin with this same statement, so the request's route is left
\* open until its second step.
ReadBegin(username, up) ==
    /\ pending.pc = "idle"
    /\ pending' = [pc |-> "got_units", user |-> username,
                   user_units |-> get_user_preferred_units(username, up)]
    /\ fallback_user_units' = get_user_preferred_units_cache(username, up)
    /\ UNCHANGED <<threads, registered, deleted, call, db_available, users, entries, next_id, now, last_set>>

\* Second step: the query, the conversion and the response change nothing.
ReadFinish ==
    /\ pending.pc = "got_units"
    /\ pending' = Idle
    /\ UNCHANGED <<threads, registered, deleted, call, db_available, users, entries, next_id, fallback_user_units,
                   now, last_set>>

(***************************************************************************)
(* Calls of DataManager's methods with no handler in front                 *)
(***************************************************************************)
SaveEntryValues == {499, 1200}

\* Values for the statistics: 120.5 and 140.2 have the mean 130.35, 120.0
\* and 140.3 the mean 130.15.
StatsValues == {1200, 1205, 1402, 1403}

\* data_manager.save_entry(username, blood_sugar, meal, exercise, date)
save_entry_result(date, up) ==
    IF save_entry_raises(date, up) THEN "raised" ELSE "entry_id"

SaveEntry(username, blood_sugar, date, up) ==
    /\ next_id <= MaxEntries
    /\ entries' = save_entry(username, blood_sugar, Meal, Exercise, date, up)
    /\ next_id' = next_id + 1
    /\ UNCHANGED <<threads, registered, deleted, call, db_available, users, fallback_user_units, now, pending,
                   last_set>>

\* data_manager.delete_entry(entry_id)
delete_entry_result(entry_id, up) ==
    IF delete_entry(entry_id, up) THEN "True" ELSE "False"

DeleteEntry(entry_id, up) ==
    /\ entries' = delete_entry_entries(entry_id, up)
    /\ deleted' = IF delete_entry(entry_id, up)
                  THEN deleted \cup {entry_id} ELSE deleted
    /\ UNCHANGED <<threads, registered, call, db_available, users, next_id, fallback_user_units, now,
                   pending, last_set>>

\* data_manager.update_user_preferred_units(username, units)
update_user_preferred_units_result(username, units, up) == "True"

UpdateUserPreferredUnits(username, units, up) ==
    /\ fallback_user_units' = update_user_preferred_units_cache(username, units)
    /\ users' = update_user_preferred_units_users(username, units, up)
    /\ last_set' = [last_set EXCEPT ![username] = units]
    /\ UNCHANGED <<threads, registered, deleted, call, db_available, entries, next_id, now, pending>>

\* UnitConverter.convert_to_user_units(value, from_units, to_units)
ConvertToUserUnits(value, from_units, to_units) ==
    /\ call' = [op |-> "convert_to_user_units", value |-> value,
                from_units |-> from_units, to_units |-> to_units,
                result |-> convert_to_user_units(value, from_units, to_units)]
    /\ UNCHANGED <<threads, registered, db_available, users, entries, next_id, fallback_user_units,
                   now, pending, last_set, deleted>>

\* The text a method of the engine returns, for an engine built with or
\* without an API key and client, and a call that raises or not.
ai_engine(method, blood_sugar, api_key, client, raises) ==
    IF method = "get_recommendation"
    THEN get_recommendation(blood_sugar, Generated(api_key, client, raises))
    ELSE IF method = "get_meal_suggestions"
    THEN get_meal_suggestions(blood_sugar, Generated(api_key, client, raises))
    ELSE get_exercise_recommendations(blood_sugar, api_key,
                                      Generated(api_key, client, raises))

\* ai_engine.get_recommendation, get_meal_suggestions and
\* get_exercise_recommendations.  __init__ builds a client only with a key.
AiEngineCall(method, blood_sugar, api_key, client, raises) ==
    /\ client => api_key
    /\ call' = [op |-> method, blood_sugar |-> blood_sugar,
                api_key |-> api_key, client |-> client, raises |-> raises,
                result |-> ai_engine(method, blood_sugar, api_key, client,
                                     raises)]
    /\ UNCHANGED <<threads, registered, db_available, users, entries, next_id, fallback_user_units,
                   now, pending, last_set, deleted>>

(***************************************************************************)
(* Requests handled at the same time.  Each thread runs one call, one      *)
(* access to the store or to the cache per step.                           *)
(***************************************************************************)
\* register_user, first step: user_exists(username) in a session of its
\* own.  True (or what user_exists makes of an error, False) decides
\* whether the call returns False here or goes on to insert.
RegisterUserCheck(t, username, password, up) ==
    /\ threads[t] = Idle
    /\ threads' =
           IF user_exists(username, up) THEN threads
           ELSE [threads EXCEPT ![t] = [pc |-> "register_user_insert",
                                        username |-> username,
                                        password |-> password]]
    /\ UNCHANGED <<db_available, users, entries, next_id, fallback_user_units,
                   now, pending, last_set, deleted, call, registered>>

\* register_user, second step: session.add(new_user); session.commit().
RegisterUserInsert(t, up) ==
    /\ threads[t].pc = "register_user_insert"
    /\ users' =
           IF register_user_insert(threads[t].username, up)
           THEN [users EXCEPT ![threads[t].username] = User(threads[t].password)]
           ELSE users
    /\ registered' =
           IF register_user_insert(threads[t].username, up)
           THEN [registered EXCEPT ![threads[t].username] = @ + 1]
           ELSE registered
    /\ threads' = [threads EXCEPT ![t] = Idle]
    /\ UNCHANGED <<db_available, entries, next_id, fallback_user_units, now,
                   pending, last_set, deleted, call>>

\* get_user_preferred_units, first steps: the test of the cache and, on a
\* miss, the query.  The call returns here unless the query found a unit.
GetUserPreferredUnitsRead(t, username, up) ==
    /\ threads[t] = Idle
    /\ threads' =
           IF get_user_preferred_units_cache(username, up) = fallback_user_units
           THEN threads
           ELSE [threads EXCEPT ![t] = [pc |-> "get_user_preferred_units_cache",
                                        username |-> username,
                                        units |-> users[username].preferred_units]]
    /\ UNCHANGED <<db_available, users, entries, next_id, fallback_user_units,
                   now, pending, last_set, deleted, call, registered>>

\* get_user_preferred_units, last step:
\* self._fallback_user_units[username] = user.preferred_units, with the
\* unit the query returned.
GetUserPreferredUnitsCache(t) ==
    /\ threads[t].pc = "get_user_preferred_units_cache"
    /\ fallback_user_units' =
           [fallback_user_units EXCEPT ![threads[t].username] = threads[t].units]
    /\ threads' = [threads EXCEPT ![t] = Idle]
    /\ UNCHANGED <<db_available, users, entries, next_id, now, pending,
                   last_set, deleted, call, registered>>

\* update_user_preferred_units, first step:
\* self._fallback_user_units[username] = units.
UpdateUserPreferredUnitsCache(t, username, units) ==
    /\ threads[t] = Idle
    /\ fallback_user_units' = update_user_preferred_units_cache(username, units)
    /\ threads' = [threads EXCEPT ![t] = [pc |-> "update_user_preferred_units_sync",
                                          username |-> username,
                                          units |-> units]]
    /\ UNCHANGED <<db_available, users, entries, next_id, now, pending,
                   last_set, deleted, call, registered>>

\* update_user_preferred_units, second step: the sync with the store and
\* the return.
UpdateUserPreferredUnitsSync(t, up) ==
    /\ threads[t].pc = "update_user_preferred_units_sync"
    /\ users' = update_user_preferred_units_users(threads[t].username,
                                                  threads[t].units, up)
    /\ last_set' = [last_set EXCEPT ![threads[t].username] = threads[t].units]
    /\ threads' = [threads EXCEPT ![t] = Idle]
    /\ UNCHANGED <<db_available, entries, next_id, fallback_user_units, now,
                   pending, deleted, call, registered>>

\* The clock
Tick ==
    /\ now < WeekDays + MaxTicks
    /\ now' = now + 1
    /\ UNCHANGED <<threads, registered, deleted, call, db_available, users, entries, next_id, fallback_user_units,
                   pending, last_set>>

(***************************************************************************)
(* Specifications                                                          *)
(***************************************************************************)
\* DataManager.__init__: _initialize_database either succeeds or fails.
Init ==
    /\ db_available \in BOOLEAN
    /\ users = [u \in Usernames |-> NoRow]
    /\ entries = {}
    /\ next_id = 1
    /\ fallback_user_units = [u \in Usernames |-> NoUnits]
    /\ now = WeekDays
    /\ pending = Idle
    /\ last_set = [u \in Usernames |-> NoUnits]
    /\ deleted = {}
    /\ call = NoCall
    /\ threads = [t \in Threads |-> Idle]
    /\ registered = [u \in Usernames |-> 0]

Writes ==
    \/ \E u \in Usernames, c, i \in BOOLEAN : Register(u, c, i)
    \/ \E u \in Usernames, body \in LogEntryBodies, a, b \in BOOLEAN :
            LogEntry(u, body, a, b)
    \/ \E u \in Usernames, x \in UnitInputs, up \in BOOLEAN :
            UpdateUnits(u, x, up)
    \/ \E u \in Usernames, up \in BOOLEAN : GetUserPreferences(u, up)

Reads ==
    \/ \E u \in Usernames, up \in BOOLEAN : GetHistory(u, up)
    \/ \E u \in Usernames, up \in BOOLEAN : GetChartData(u, up)
    \/ \E u \in Usernames, up \in BOOLEAN : GetUserStats(u, up)

Calls ==
    \/ \E u \in Usernames, v \in SaveEntryValues, d \in DateInputs,
          up \in BOOLEAN : SaveEntry(u, v, d, up)
    \/ \E id \in 1..MaxEntries, up \in BOOLEAN : DeleteEntry(id, up)
    \/ \E u \in Usernames, x \in UnitInputs, up \in BOOLEAN :
            UpdateUserPreferredUnits(u, x, up)

Accounts ==
    \/ \E u \in Usernames, p \in Passwords, up \in BOOLEAN : Login(u, p, up)
    \/ \E u \in Usernames, old, new \in Passwords, a, b \in BOOLEAN :
            ChangePassword(u, old, new, a, b)

Advice ==
    \E u \in Usernames, a, b \in BOOLEAN : GetRecommendation(u, a, b)

\* The HTTP requests, one at a time, together with direct calls of
\* DataManager's methods.  The clock stands still in the specifications
\* whose properties do not read it; SpecClock lets it run.
Next == Writes \/ Reads \/ Calls

Spec == Init /\ [][Next]_vars

\* The HTTP requests alone, one at a time.
NextHttp == Writes \/ Reads

SpecHttp == Init /\ [][NextHttp]_vars

\* The HTTP requests, with a read request overlapping the others.
NextOverlap ==
    \/ Writes
    \/ \E u \in Usernames, up \in BOOLEAN : ReadBegin(u, up)
    \/ ReadFinish

SpecOverlap == Init /\ [][NextOverlap]_vars

\* The HTTP requests, one at a time, while time passes.
NextClock == Writes \/ Reads \/ Tick

SpecClock == Init /\ [][NextClock]_vars

\* Every request, one at a time, together with direct calls of save_entry,
\* delete_entry and update_user_preferred_units (with a unit the request
\* accepts).
NextAll ==
    \/ Writes \/ Reads \/ Accounts \/ Advice
    \/ \E u \in Usernames, v \in SaveEntryValues, d \in DateInputs,
          up \in BOOLEAN : SaveEntry(u, v, d, up)
    \/ \E id \in 1..MaxEntries, up \in BOOLEAN : DeleteEntry(id, up)
    \/ \E u \in Usernames, x \in Units, up \in BOOLEAN :
            UpdateUserPreferredUnits(u, x, up)

SpecAll == Init /\ [][NextAll]_vars

\* save_entry, get_user_stats and the clock: the statistics of entries with
\* any of StatsValues, on the day they are dated and later.
NextStats ==
    \/ \E u \in Usernames, v \in StatsValues, d \in Dates, up \in BOOLEAN :
            SaveEntry(u, v, d, up)
    \/ \E u \in Usernames, up \in BOOLEAN : GetUserStats(u, up)
    \/ Tick

SpecStats == Init /\ [][NextStats]_vars

\* The calls of the functions that read no state: the converter and the
\* recommendation engine.
NextFunctions ==
    \/ \E v \in ConvertValues, x, y \in UnitInputs : ConvertToUserUnits(v, x, y)
    \/ \E m \in AiMethods, v \in AiValues, k, c, r \in BOOLEAN :
            AiEngineCall(m, v, k, c, r)

SpecFunctions == Init /\ [][NextFunctions]_vars

\* Registrations and reads and changes of the preference, handled at the
\* same time by the threads of the server.
NextThreads ==
    \/ \E t \in Threads, u \in Usernames, p \in Passwords, up \in BOOLEAN :
            RegisterUserCheck(t, u, p, up)
    \/ \E t \in Threads, up \in BOOLEAN : RegisterUserInsert(t, up)
    \/ \E t \in Threads, u \in Usernames, up \in BOOLEAN :
            GetUserPreferredUnitsRead(t, u, up)
    \/ \E t \in Threads : GetUserPreferredUnitsCache(t)
    \/ \E t \in Writers, u \in Usernames, x \in Units :
            UpdateUserPreferredUnitsCache(t, u, x)
    \/ \E t \in Writers, up \in BOOLEAN : UpdateUserPreferredUnitsSync(t, up)

SpecThreads == Init /\ [][NextThreads]_vars

(***************************************************************************)
(* Properties.  The expected values are computed here from the numbers of  *)
(* the specification, not with the operators above.                        *)
(***************************************************************************)
\* A submitted value expressed in mg/dL: round(v * 18.018, 1) for mmol/L.
ToMgDl(body) ==
    IF body.units = "mmol/L"
    THEN (body.blood_sugar * 18018 + 500) \div 1000
    ELSE body.blood_sugar

\* A canonical value in a display unit: round(v / 18.018, 1) for mmol/L.
ToDisplay(value, units) ==
    IF units = "mmol/L" THEN (value * 1000 + 9009) \div 18018 ELSE value

OutsideRange(value) == value < 500 \/ value > 5000

\* C1: what a log-entry request persists is the submitted value expressed in
\* mg/dL (unchanged for mg/dL, round(v * 18.018, 1) for mmol/L), whatever
\* the user's display preference is when it is written; and every persisted
\* entry holds such a value.
C1_StoredInMgDl ==
    /\ \A u \in Usernames, body \in LogEntryBodies, a, b \in BOOLEAN :
         \A e \in log_entry_entries(u, body, a, b) \ entries :
            e.username = u /\ e.blood_sugar = ToMgDl(body)
    /\ \A e \in entries :
         \E body \in WellFormed : e.blood_sugar = ToMgDl(body)

\* A user who prefers mmol/L has one entry logged in mmol/L (6.7) and one
\* logged in mg/dL (120.0).
C1_Witness ==
    \E e1, e2 \in entries :
        /\ e1.username = e2.username
        /\ e1.blood_sugar = 1207 /\ e2.blood_sugar = 1200
        /\ fallback_user_units[e1.username] = "mmol/L"

\* C2 as stated: no persisted entry has a value below 50.0 or above 500.0,
\* also when save_entry is called directly.
C2_NoEntryOutsideRange ==
    \A e \in entries : ~OutsideRange(e.blood_sugar)

\* C2 as amended: the range is checked by the log-entry request before it
\* calls save_entry, so no entry persisted by a log-entry request is below
\* 50.0 or above 500.0; save_entry itself persists any value it is given.
C2_LogEntryStoresInRange ==
    /\ \A u \in Usernames, body \in LogEntryBodies, a, b \in BOOLEAN :
         \A e \in log_entry_entries(u, body, a, b) \ entries :
            ~OutsideRange(e.blood_sugar)
    /\ \A u \in Usernames, v \in SaveEntryValues, d \in Dates :
         Session(TRUE) =>
            \E e \in save_entry(u, v, Meal, Exercise, d, TRUE) \ entries :
                e.blood_sugar = v

\* An entry at the upper bound, logged by a request, beside one below the
\* lower bound, saved directly.
C2_Witness ==
    \E e1, e2 \in entries : e1.blood_sugar = 5000 /\ e2.blood_sugar = 499

\* C3 as stated: a log-entry request (all fields present, known unit,
\* parsable date) is rejected exactly when its value in mg/dL is below 50.0
\* or above 500.0.
C3_RejectedIffOutsideRange ==
    \A u \in Usernames, body \in WellFormed, a, b, g \in BOOLEAN :
        (log_entry_response(u, body, a, b, g).status # 201)
            <=> OutsideRange(ToMgDl(body))

\* C3 as amended: such a request is rejected with the range error (400,
\* store unchanged, no recommendation) exactly when its value in mg/dL is
\* below 50.0 or above 500.0, the bounds themselves being accepted; a value
\* in range is persisted and answered 201 when the store answers, and is
\* answered 500 with the store unchanged when it does not.
C3_RangeRejection ==
    \A u \in Usernames, body \in WellFormed, a, b, g \in BOOLEAN :
        LET r == log_entry_response(u, body, a, b, g)
            after == log_entry_entries(u, body, a, b)
        IN  /\ (r.status = 400) <=> OutsideRange(ToMgDl(body))
            /\ r.status = 400 =>
                 /\ r.error = "range" /\ r.entry_id = 0
                 /\ r.recommendation = NoText /\ after = entries
            /\ (~OutsideRange(ToMgDl(body)) /\ db_available /\ b) =>
                 /\ r.status = 201 /\ r.recommendation # NoText
                 /\ \E e \in after \ entries :
                      e.entry_id = r.entry_id /\ e.blood_sugar = ToMgDl(body)
            /\ (~OutsideRange(ToMgDl(body)) /\ ~(db_available /\ b)) =>
                 /\ r.status = 500 /\ r.entry_id = 0
                 /\ r.recommendation = NoText /\ after = entries

\* Both bounds, 50.0 and 500.0, have been accepted and persisted.
C3_Witness ==
    \E e1, e2 \in entries : e1.blood_sugar = 500 /\ e2.blood_sugar = 5000

\* C4: the history response converts every stored value with the preference
\* current when it is read (the unit last set, mg/dL if none was), whatever
\* unit or preference was in force when the entry was written.
C4_HistoryInCurrentPreference ==
    \A u \in Usernames, a, b \in BOOLEAN :
        \A raw_history \in get_user_history(u, b) :
            LET r == get_history_response(
                         u, get_user_preferred_units(u, a), raw_history)
                current == IF last_set[u] = NoUnits THEN "mg/dL"
                           ELSE last_set[u]
            IN  /\ r.status = 200
                /\ r.units = current
                /\ Len(r.history) = Len(raw_history)
                /\ \A i \in 1..Len(raw_history) :
                     /\ r.history[i].entry_id = raw_history[i].entry_id
                     /\ r.history[i].blood_sugar =
                            ToDisplay(raw_history[i].blood_sugar, current)

\* The preference was set to mmol/L and 120.0 mg/dL is in the history of
\* that user (to be shown as 6.7).
C4_Witness ==
    \E e \in entries :
        /\ e.blood_sugar = 1200
        /\ last_set[e.username] = "mmol/L"
        /\ db_available

\* C5: in a history, chart-data or user-stats response every value is the
\* stored value converted with one preference value, the one of the units
\* label, also when update-units requests run between the read of the
\* preference and the query.
C5_OnePreferencePerResponse ==
    pending.pc = "got_units" =>
      \A up \in BOOLEAN :
        /\ \A raw_history \in get_user_history(pending.user, up) :
             LET r == get_history_response(pending.user, pending.user_units,
                                           raw_history)
             IN  /\ r.status = 200
                 /\ \A i \in 1..Len(raw_history) :
                      r.history[i].blood_sugar =
                          ToDisplay(raw_history[i].blood_sugar, r.units)
        /\ \A rows \in chart_rows(pending.user, up) :
             LET r == get_chart_data_response(pending.user, pending.user_units,
                                              get_chart_data(rows))
             IN  /\ r.status = 200
                 /\ Len(r.data) = Len(rows)
                 /\ \A i \in 1..Len(rows) :
                      r.data[i] = ToDisplay(rows[i].blood_sugar, r.units)
        /\ \A raw_stats \in get_user_stats(pending.user, up) :
             LET r == get_user_stats_response(pending.user, pending.user_units,
                                              raw_stats)
             IN  /\ r.status = 200
                 /\ r.avg_blood_sugar =
                        ToDisplay(raw_stats.avg_blood_sugar, r.units)

\* A read request has read the preference, the preference has been changed
\* since, and the user has two entries to convert.
C5_Witness ==
    /\ pending.pc = "got_units"
    /\ fallback_user_units[pending.user] # pending.user_units
    /\ Cardinality(UserEntries(pending.user)) >= 2

\* C6: setting mg/dL or mmol/L succeeds whatever the state of the durable
\* store, and until the next set every get returns the unit that was set.
C6_GetReturnsLastSet ==
    \A u \in Usernames, up \in BOOLEAN :
        /\ \A x \in Units :
             /\ update_user_preferred_units_result(u, x, up) = "True"
             /\ update_units_response(u, x, up).status = 200
        /\ last_set[u] \in Units =>
             /\ get_user_preferred_units(u, up) = last_set[u]
             /\ get_user_preferences_response(u, up).preferred_units = last_set[u]

\* mmol/L was set while the durable store was unreachable since start-up.
C6_Witness ==
    \E u \in Usernames : ~db_available /\ last_set[u] = "mmol/L"

\* C7: get_user_preferred_units returns the cached value when there is one
\* and leaves the cache alone; otherwise the durable store's value when the
\* store answers and has a row for the user, and copies it into the cache;
\* otherwise mg/dL, with no cache entry made.  It always returns.
C7_ResolutionOrder ==
    \A u \in Usernames, up \in BOOLEAN :
        LET cached == fallback_user_units[u]
            stored == db_available /\ up /\ users[u].exists
            got == get_user_preferred_units(u, up)
            after == get_user_preferred_units_cache(u, up)
        IN  /\ cached # NoUnits => got = cached /\ after = fallback_user_units
            /\ (cached = NoUnits /\ stored) =>
                 /\ got = users[u].preferred_units
                 /\ after[u] = users[u].preferred_units
                 /\ \A w \in Usernames \ {u} : after[w] = fallback_user_units[w]
            /\ (cached = NoUnits /\ ~stored) =>
                 got = "mg/dL" /\ after = fallback_user_units
            /\ get_user_preferences_response(u, up).status = 200

\* A get has copied the durable store's value into the cache (nothing was
\* set for that user).
C7_Witness ==
    \E u \in Usernames :
        fallback_user_units[u] = "mg/dL" /\ last_set[u] = NoUnits

\* C8 as stated: every value get_user_preferred_units returns is mg/dL or
\* mmol/L, after any sequence of operations.
C8_AlwaysKnownUnit ==
    \A u \in Usernames, up \in BOOLEAN :
        get_user_preferred_units(u, up) \in Units

\* C8 as amended: the update-units request with a unit other than mg/dL and
\* mmol/L is answered 400 and leaves the cache and the durable preference
\* unchanged; a returned value other than mg/dL and mmol/L is one that a
\* direct call of update_user_preferred_units, which checks nothing, stored.
C8_RequestRejectsUnknownUnit ==
    \A u \in Usernames, up \in BOOLEAN :
        /\ \A x \in UnitInputs \ Units :
             /\ update_units_response(u, x, up).status = 400
             /\ update_units_cache(u, x) = fallback_user_units
             /\ update_units_users(u, x, up) = users
             /\ update_user_preferred_units_cache(u, x)[u] = x
        /\ get_user_preferred_units(u, up) \notin Units =>
             get_user_preferred_units(u, up) = last_set[u]

\* A user whose cache and durable row both hold mmol/L.
C8_Witness ==
    \E u \in Usernames :
        /\ users[u].exists /\ users[u].preferred_units = "mmol/L"
        /\ fallback_user_units[u] = "mmol/L"

\* C9: when the store cannot be reached, save_entry raises: no entry id is
\* returned and no entry is added, called directly or by a log-entry request
\* (which answers 500).
C9_SaveFailsWhenUnreachable ==
    \A u \in Usernames, up \in BOOLEAN :
        ~(db_available /\ up) =>
            /\ \A v \in SaveEntryValues, d \in DateInputs :
                 /\ save_entry_result(d, up) = "raised"
                 /\ save_entry(u, v, Meal, Exercise, d, up) = entries
            /\ \A body \in WellFormed, a, g \in BOOLEAN :
                 ~OutsideRange(ToMgDl(body)) =>
                    /\ log_entry_response(u, body, a, up, g).status = 500
                    /\ log_entry_response(u, body, a, up, g).entry_id = 0
                    /\ log_entry_entries(u, body, a, up) = entries

\* save_entry was called (an identifier was drawn) with the store
\* unreachable since start-up, and nothing is stored.
C9_Witness ==
    ~db_available /\ next_id > 1 /\ entries = {}

\* C10: when the store is unreachable or fails during the call, the outcome
\* of delete_entry is not the False that means that no such entry existed.
C10_DeleteFailureDistinguishable ==
    \A id \in 1..MaxEntries, up \in BOOLEAN :
        ~(db_available /\ up) => delete_entry_result(id, up) # "False"

\* C11: when the store cannot be reached, no read operation raises:
\* get_user_history and get_recent_entries return the empty list,
\* get_user_stats returns 0 / 0 / 0, get_chart_data returns three empty
\* lists, and the history and chart-data requests answer 200 with no data,
\* whatever the store holds.
C11_ReadsDegrade ==
    \A u \in Usernames, a, up \in BOOLEAN :
        ~(db_available /\ up) =>
            /\ ~read_raises(up)
            /\ get_user_history(u, up) = {<<>>}
            /\ get_recent_entries(u, RecentLimit, up) = {<<>>}
            /\ get_user_stats(u, up) =
                   {[total_entries |-> 0, avg_blood_sugar |-> 0,
                     entries_this_week |-> 0]}
            /\ {get_chart_data(rows) : rows \in chart_rows(u, up)} =
                   {[labels |-> <<>>, data |-> <<>>, dates |-> <<>>]}
            /\ \A r \in get_history_request(u, a, up) :
                   r.status = 200 /\ r.history = <<>>
            /\ \A r \in get_chart_data_request(u, a, up) :
                   /\ r.status = 200
                   /\ r.labels = <<>> /\ r.data = <<>> /\ r.dates = <<>>

\* A user has two stored entries and prefers mmol/L: a read that finds the
\* server not answering returns none of them.
C11_Witness ==
    \E u \in Usernames :
        /\ Cardinality(UserEntries(u)) = 2
        /\ fallback_user_units[u] = "mmol/L"
        /\ get_user_history(u, FALSE) = {<<>>}

\* C12: with the store reachable, delete_entry of an existing entry returns
\* True and removes exactly that entry, every other entry staying as it is,
\* after which the same call returns False; delete_entry of an identifier
\* that is not stored (never stored, or deleted before) returns False and
\* leaves the store unchanged.  A deleted identifier is never stored again.
C12_DeleteIdempotent ==
    /\ [](deleted \cap {e.entry_id : e \in entries} = {})
    /\ [][\A id \in 1..MaxEntries :
            (db_available /\ DeleteEntry(id, TRUE)) =>
                IF \E e \in entries : e.entry_id = id
                THEN /\ delete_entry_result(id, TRUE) = "True"
                     /\ \E e \in entries :
                            e.entry_id = id /\ entries' = entries \ {e}
                     /\ (delete_entry_result(id, TRUE) = "False")'
                     /\ \A u \in Usernames :
                          \A h \in get_user_history(u, TRUE)' :
                             \A i \in 1..Len(h) : h[i].entry_id # id
                ELSE /\ delete_entry_result(id, TRUE) = "False"
                     /\ entries' = entries
       ]_vars

\* One entry was deleted and the other entry is still stored.
C12_Witness ==
    \E id \in deleted, e \in entries :
        id # e.entry_id /\ db_available /\ Cardinality(entries) = 1

\* The label and the date string of a day number, written out.
ExpectedLabel(date) == IF date = 0 THEN <<12, 31>> ELSE <<1, date>>

ExpectedDate(date) == IF date = 0 THEN <<2023, 12, 31>> ELSE <<2024, 1, date>>

C14_ChartSeriesAligned ==
    \A u \in Usernames, a, up \in BOOLEAN :
        /\ \A rows \in chart_rows(u, up) :
             LET c == get_chart_data(rows)
             IN  /\ Len(c.labels) = Len(c.data) /\ Len(c.data) = Len(c.dates)
                 /\ Len(c.data) = Len(rows)
                 /\ \A i \in 1..Len(rows) :
                      /\ c.labels[i] = ExpectedLabel(rows[i].date)
                      /\ c.dates[i] = ExpectedDate(rows[i].date)
                      /\ c.data[i] = rows[i].blood_sugar
        /\ \A r \in get_chart_data_request(u, a, up) :
             /\ r.status = 200
             /\ Len(r.labels) = Len(r.data) /\ Len(r.data) = Len(r.dates)
             /\ \E f \in Orderings(IF db_available /\ up
                                    THEN {e \in entries : e.username = u}
                                    ELSE {}) :
                  /\ Len(f) = Len(r.data)
                  /\ \A i \in 1..Len(f) :
                       /\ r.labels[i] = ExpectedLabel(f[i].date)
                       /\ r.dates[i] = ExpectedDate(f[i].date)
                       /\ r.data[i] = ToDisplay(f[i].blood_sugar, r.units)

\* A user who prefers mmol/L has two entries with different dates and
\* different values.
C14_Witness ==
    \E e1, e2 \in entries :
        /\ e1.username = e2.username /\ db_available
        /\ e1.date # e2.date /\ e1.blood_sugar # e2.blood_sugar
        /\ fallback_user_units[e1.username] = "mmol/L"

\* C15 as stated: get_user_stats returns the number of the user's entries,
\* their mean rounded half up to one decimal (130.4 for 120.5 and 140.2),
\* and the number of them dated now - 7 days or later; zeros for no entry.
C15_StatsHalfUp ==
    \A u \in Usernames :
        db_available =>
            LET owned == {e \in entries : e.username = u}
                n == Cardinality(owned)
                sum == SumSeq([i \in 1..n |->
                          (CHOOSE f \in Orderings(owned) : TRUE)[i].blood_sugar])
            IN  \A s \in get_user_stats(u, TRUE) :
                    /\ s.total_entries = n
                    /\ n > 0 => s.avg_blood_sugar = (2 * sum + n) \div (2 * n)
                    /\ n = 0 => s.avg_blood_sugar = 0
                    /\ s.entries_this_week =
                          Cardinality({e \in owned : e.date >= now - 7})

\* C15 as amended: the mean is rounded by round(mean, 1) on the float mean:
\* it is the mean itself when that has one decimal, and otherwise one of
\* the two one-decimal neighbours of the mean, 130.3 for 120.5 and 140.2
\* (and 130.2 for 120.0 and 140.3).  The counts are as stated, and
\* entries_this_week never exceeds total_entries.
C15_StatsPythonRound ==
    \A u \in Usernames :
        db_available =>
            LET owned == {e \in entries : e.username = u}
                n == Cardinality(owned)
                vals == {e.blood_sugar : e \in owned}
                sum == SumSeq([i \in 1..n |->
                          (CHOOSE f \in Orderings(owned) : TRUE)[i].blood_sugar])
            IN  /\ get_user_stats(u, TRUE) # {}
                /\ \A s \in get_user_stats(u, TRUE) :
                    /\ s.total_entries = n
                    /\ n = 0 => s.avg_blood_sugar = 0 /\ s.entries_this_week = 0
                    /\ n > 0 =>
                         /\ 2 * (n * s.avg_blood_sugar - sum) <= n
                         /\ 2 * (sum - n * s.avg_blood_sugar) <= n
                    /\ (n = 2 /\ vals = {1205, 1402}) => s.avg_blood_sugar = 1303
                    /\ (n = 2 /\ vals = {1200, 1403}) => s.avg_blood_sugar = 1302
                    /\ s.entries_this_week =
                          Cardinality({e \in owned : e.date >= now - 7})
                    /\ s.entries_this_week <= s.total_entries

\* A user has the entries 120.5 and 140.2, one of them dated more than seven
\* days ago.
C15_Witness ==
    \E e1, e2 \in entries :
        /\ e1.username = e2.username /\ db_available
        /\ e1.blood_sugar = 1205 /\ e2.blood_sugar = 1402
        /\ e1.date < now - 7 /\ e2.date >= now - 7

\* C16: a stored entry is never changed, and it is removed only by
\* delete_entry of its own identifier: every step of every other operation
\* (update-units and update_user_preferred_units, the reads, register,
\* login, change-password, log-entry and save_entry of other entries) leaves
\* each stored entry as it is, field by field.
C16_EntriesImmutable ==
    /\ [](\A u \in Usernames, body \in LogEntryBodies, a, b \in BOOLEAN :
            entries \subseteq log_entry_entries(u, body, a, b))
    /\ [][\A e \in entries :
            \/ e \in entries'
            \/ /\ \E up \in BOOLEAN : DeleteEntry(e.entry_id, up)
               /\ \A d \in entries' : d.entry_id # e.entry_id
       ]_vars

\* The first entry is still stored after a second one was stored and
\* deleted, its owner's preference was set to mmol/L and its owner's
\* password was changed.
C16_Witness ==
    \E e \in entries :
        /\ e.entry_id = 1 /\ 2 \in deleted
        /\ last_set[e.username] = "mmol/L"
        /\ users[e.username].exists
        /\ users[e.username].password_hash = hash_password("secret2")

\* C17: a one-decimal value v in a supported unit u, converted to mg/dL and
\* back to u, is v again; a value in mmol/L is stored as round(v * 18.018, 1)
\* mg/dL and read back in mmol/L as the entered v.
C17_RoundTrip ==
    (/\ call.op = "convert_to_user_units"
     /\ call.from_units \in {"mg/dL", "mmol/L"}
     /\ call.to_units = "mg/dL") =>
        /\ convert_to_user_units(call.result, "mg/dL", call.from_units)
               = call.value
        /\ call.from_units = "mmol/L" =>
               /\ call.result = (call.value * 18018 + 500) \div 1000
               /\ (call.result * 1000 + 9009) \div 18018 = call.value
        /\ call.from_units = "mg/dL" => call.result = call.value

\* 6.7 mmol/L has been converted to 120.7 mg/dL.
C17_Witness ==
    /\ call.op = "convert_to_user_units"
    /\ call.from_units = "mmol/L" /\ call.to_units = "mg/dL"
    /\ call.value = 67 /\ call.result = 1207

\* C18 as stated: the conversion fails whenever one of its unit arguments
\* is not mg/dL or mmol/L, and returns the value unchanged when the two
\* units are equal.
C18_FailsOnAnyUnsupportedUnit ==
    call.op = "convert_to_user_units" =>
        /\ (call.from_units \notin {"mg/dL", "mmol/L"}
             \/ call.to_units \notin {"mg/dL", "mmol/L"}) =>
                call.result = 0 - 1
        /\ (call.from_units = call.to_units
             /\ call.from_units \in {"mg/dL", "mmol/L"}) =>
                call.result = call.value

\* C18 as amended: the equality of the two units is tested first, so the
\* conversion returns the value unchanged whenever they are equal, also
\* when they are equal and unsupported; it fails whenever the units differ
\* and one of them is not mg/dL or mmol/L, and succeeds otherwise.
C18_IdentityBeforeUnitCheck ==
    call.op = "convert_to_user_units" =>
        /\ call.from_units = call.to_units => call.result = call.value
        /\ (/\ call.from_units # call.to_units
             /\ \/ call.from_units \notin {"mg/dL", "mmol/L"}
                \/ call.to_units \notin {"mg/dL", "mmol/L"}) =>
                call.result = 0 - 1
        /\ (/\ call.from_units # call.to_units
             /\ call.from_units \in {"mg/dL", "mmol/L"}
             /\ call.to_units \in {"mg/dL", "mmol/L"}) =>
                call.result >= 0

\* A conversion from an unsupported unit to mmol/L has failed.
C18_Witness ==
    /\ call.op = "convert_to_user_units"
    /\ call.from_units = "stone" /\ call.to_units = "mmol/L"
    /\ call.value = 67 /\ call.result = 0 - 1

\* C19: when the generator has no API key, has no client, or raises during
\* the call, each method of the engine returns (it does not raise) a
\* non-empty text that is a function of the glucose value alone: the same
\* text for the same value, whichever of the three ways the generator is
\* missing.
C19_FallbackFunctionOfGlucose ==
    (/\ call.op \in AiMethods
     /\ ~(call.api_key /\ call.client /\ ~call.raises)) =>
        /\ call.result.variant # "" /\ call.result.words > 0
        /\ \A k, c, r \in BOOLEAN :
             ((c => k) /\ ~(k /\ c /\ ~r)) =>
                ai_engine(call.op, call.blood_sugar, k, c, r) = call.result

\* The bands of the canned texts, as claimed and as they are in the code.
ClaimedBand(method, blood_sugar) ==
    IF blood_sugar < 700 THEN "low"
    ELSE IF blood_sugar >
              (IF method = "get_exercise_recommendations" THEN 2500 ELSE 2000)
         THEN "high"
    ELSE "middle"

MealBand(blood_sugar) ==
    IF blood_sugar < 1000 THEN "below 100"
    ELSE IF blood_sugar < 1400 THEN "100 to below 140"
    ELSE "140 and above"

\* C20 as stated: for each of the three methods the canned variant is
\* selected by the bands < 70, 70 to 200 and > 200 (> 250 for exercise):
\* two values get the same variant exactly when they are in the same band.
C20_ClaimedBands ==
    (/\ call.op \in AiMethods
     /\ ~(call.api_key /\ call.client /\ ~call.raises)) =>
        \A v \in AiValues :
            (ClaimedBand(call.op, v) = ClaimedBand(call.op, call.blood_sugar))
            <=> (ai_engine(call.op, v, call.api_key, call.client,
                           call.raises).variant = call.result.variant)

\* C20 as amended: get_recommendation selects by < 70, 70 to 200, > 200 and
\* get_exercise_recommendations by < 70, 70 to 250, > 250, as stated;
\* get_meal_suggestions selects by < 100, 100 to below 140, and 140 and
\* above.  Two values get the same variant exactly when they are in the
\* same band of the method.
C20_BandsOfEachMethod ==
    (/\ call.op \in AiMethods
     /\ ~(call.api_key /\ call.client /\ ~call.raises)) =>
        \A v \in AiValues :
            (IF call.op = "get_meal_suggestions"
             THEN MealBand(v) = MealBand(call.blood_sugar)
             ELSE ClaimedBand(call.op, v)
                      = ClaimedBand(call.op, call.blood_sugar))
            <=> (ai_engine(call.op, v, call.api_key, call.client,
                           call.raises).variant = call.result.variant)

\* Without an API key, get_meal_suggestions was asked about 100.0 and
\* answered with its middle variant.
C20_Witness ==
    /\ call.op = "get_meal_suggestions"
    /\ ~call.api_key /\ call.blood_sugar = 1000
    /\ call.result.variant = "post_meal_normal"

\* C21: usernames are unique accounts.  A register call for a username that
\* exists returns failure and leaves the account's password hash as it is;
\* however the register calls of several threads for one username
\* interleave, at most one of them returns success, and the account is the
\* one that call created.
C21_UniqueUsernames ==
    /\ [](\A u \in Usernames :
            /\ registered[u] <= 1
            /\ users[u].exists <=> registered[u] = 1
            /\ \A c, i \in BOOLEAN :
                 users[u].exists =>
                    /\ ~register_user(u, c, i)
                    /\ register_response(u, c, i).status = 409
                    /\ ~register_user_insert(u, i))
    /\ [][\A u \in Usernames :
            users[u].exists =>
                /\ users'[u].exists
                /\ users'[u].password_hash = users[u].password_hash
                /\ registered'[u] = registered[u]]_vars

\* Two register calls for alice with different passwords had both passed
\* the existence check; one has created the account and the other is about
\* to insert.
C21_Witness ==
    /\ users["alice"].exists
    /\ users["alice"].password_hash = <<"sha256", "secret2">>
    /\ \E t \in Threads :
         /\ threads[t].pc = "register_user_insert"
         /\ threads[t].username = "alice"
         /\ threads[t].password = "pw1"

\* C22: register propagates a store failure as an explicit error: when the
\* store cannot be reached, registering a username that does not exist is
\* not answered with the 409 of a username that already exists.
C22_RegisterFailureDistinguishable ==
    \A u \in Usernames, c, i \in BOOLEAN :
        (~users[u].exists /\ ~Session(c) /\ ~Session(i)) =>
            register_response(u, c, i).status # 409

\* C23: change_password(u, old, new) returns True exactly when the store
\* answers, u exists and old verifies against the stored hash; the stored
\* hash of u is then the hash of new, so that login with new succeeds (also
\* when new is old), and no other account changes.  In every other case
\* (wrong old password, no such user, store not reached) it returns False
\* and leaves the hash of every account as it is.
C23_ChangePassword ==
    /\ [](\A u \in Usernames, old, new \in Passwords, a, b \in BOOLEAN :
            LET ok == change_password(u, old, new, a, b)
                after == change_password_users(u, old, new, a, b)
            IN  /\ ok <=> (/\ db_available /\ a /\ b
                           /\ users[u].exists
                           /\ users[u].password_hash = <<"sha256", old>>)
                /\ ok => /\ after[u].exists
                         /\ after[u].password_hash = <<"sha256", new>>
                         /\ \A w \in Usernames \ {u} : after[w] = users[w]
                /\ ~ok => after = users)
    /\ [][\A u \in Usernames :
            (users[u].exists /\ users'[u].password_hash # users[u].password_hash)
                => \E new \in Passwords :
                      /\ users'[u].password_hash = <<"sha256", new>>
                      /\ login_user(u, new, TRUE)'
                      /\ login_response(u, new, TRUE).status' = 200]_vars

\* alice's password has been changed while bob's is the one bob registered
\* with.
C23_Witness ==
    /\ users["alice"].exists /\ users["bob"].exists
    /\ users["alice"].password_hash = <<"sha256", "secret2">>
    /\ users["bob"].password_hash = <<"sha256", "pw1">>

\* C24: referential integrity of entries: in every reachable state the
\* owner of every persisted entry is the username of an existing account,
\* and a log-entry request for a username that was never registered stores
\* nothing.
C24_OwnerIsAccount ==
    /\ \A e \in entries : users[e.username].exists
    /\ \A u \in Usernames, body \in LogEntryBodies, a, b \in BOOLEAN :
         ~users[u].exists => log_entry_entries(u, body, a, b) = entries

\* C25 as stated: every value in the data of a successful chart-data
\* response lies between 50 and 500 inclusive, whatever the user's display
\* preference is.
C25_ChartValuesIn50To500 ==
    \A u \in Usernames, a, b \in BOOLEAN :
        \A c \in get_chart_data_request(u, a, b) :
            c.status = 200 =>
                \A i \in 1..Len(c.data) : 500 <= c.data[i] /\ c.data[i] <= 5000

\* C25 as amended: every value in the data of a successful chart-data
\* response, for entries logged through the log-entry request, lies in the
\* valid range of the unit the response names: between 50 and 500 for
\* mg/dL, between 2.8 and 27.8 for mmol/L.
C25_ChartValuesInRangeOfUnits ==
    \A u \in Usernames, a, b \in BOOLEAN :
        \A c \in get_chart_data_request(u, a, b) :
            c.status = 200 =>
                /\ c.units \in {"mg/dL", "mmol/L"}
                /\ \A i \in 1..Len(c.data) :
                     IF c.units = "mmol/L"
                     THEN 28 <= c.data[i] /\ c.data[i] <= 278
                     ELSE 500 <= c.data[i] /\ c.data[i] <= 5000

\* alice prefers mmol/L and her chart shows both ends of the range: 2.8
\* (stored as 50.0) and 27.8 (stored as 500.0).
C25_Witness ==
    \E c \in get_chart_data_request("alice", TRUE, TRUE) :
        /\ c.status = 200 /\ c.units = "mmol/L"
        /\ \E i, j \in 1..Len(c.data) : c.data[i] = 28 /\ c.data[j] = 278

C27_CacheHoldsLastSet ==
    \A u \in Usernames :
        (/\ last_set[u] # NoUnits
         /\ \A t \in Threads :
              ~(/\ threads[t].pc = "update_user_preferred_units_sync"
                /\ threads[t].username = u)) =>
            /\ fallback_user_units[u] = last_set[u]
            /\ \A up \in BOOLEAN : get_user_preferred_units(u, up) = last_set[u]

\* The band of _get_basic_recommendation for a value in mg/dL (tenths).
BandOfMgDl(value) ==
    IF value < 700 THEN "low" ELSE IF value > 2000 THEN "elevated" ELSE "good"

\* C28: the fallback recommendation of an entry does not depend on the
\* display preference: the canned variant returned when a value is logged,
\* and when the recommendation for the latest entry is requested, is the
\* one of the band of the entry's value in mg/dL.
C28_BandIndependentOfPreference ==
    /\ \A u \in Usernames, body \in WellFormed, a, b \in BOOLEAN :
         LET r == log_entry_response(u, body, a, b, FALSE)
         IN  r.status = 201 =>
                r.recommendation.variant = BandOfMgDl(ToMgDl(body))
    /\ \A u \in Usernames, a, b \in BOOLEAN :
         \A r \in get_recommendation_response(u, a, b, FALSE) :
            (r.status = 200 /\ r.recommendation.variant # "start_logging") =>
                \E e \in UserEntries(u) :
                    r.recommendation.variant = BandOfMgDl(e.blood_sugar)

\* C29: the two validation ranges agree at the log-entry request: every
\* one-decimal value from 2.8 to 27.8 submitted with units mmol/L passes
\* the validation in mg/dL and is persisted when the store answers, and
\* every value from 50.0 to 500.0 mg/dL converts to a value from 2.8 to
\* 27.8 mmol/L.
C29_RangesAgree ==
    /\ \A v \in 500..5000 :
         28 <= mg_dl_to_mmol_l(v) /\ mg_dl_to_mmol_l(v) <= 278
    /\ \A u \in Usernames, v \in 28..278, a \in BOOLEAN :
         LET body == [blood_sugar |-> v, units |-> "mmol/L", meal |-> Meal,
                      date |-> 0]
         IN  db_available =>
                /\ log_entry_response(u, body, a, TRUE, FALSE).status = 201
                /\ next_id <= MaxEntries =>
                       \E e \in log_entry_entries(u, body, a, TRUE) \ entries :
                           e.blood_sugar = (v * 18018 + 500) \div 1000

\* C30: db_available is decided by the constructor and no operation changes
\* it.  When the initialisation of the store failed, then for the rest of
\* the run, also while the server answers again (up), every save_entry
\* raises, every delete_entry returns False, every read returns the empty
\* or zeroed result, the preference is the cached one or the default, and
\* the store holds nothing: the store is not tried again.
C30_AvailabilityDecidedOnce ==
    /\ [](~db_available =>
            /\ entries = {} /\ users = [u \in Usernames |-> NoRow]
            /\ \A u \in Usernames, up \in BOOLEAN :
                 /\ \A d \in Dates, v \in SaveEntryValues :
                      /\ save_entry_raises(d, up)
                      /\ save_entry_result(d, up) = "raised"
                      /\ save_entry(u, v, Meal, Exercise, d, up) = {}
                 /\ \A id \in 1..MaxEntries :
                      /\ delete_entry_result(id, up) = "False"
                      /\ delete_entry_entries(id, up) = {}
                 /\ get_user_history(u, up) = {<<>>}
                 /\ get_recent_entries(u, RecentLimit, up) = {<<>>}
                 /\ chart_rows(u, up) = {<<>>}
                 /\ get_user_stats(u, up) =
                        {[total_entries |-> 0, avg_blood_sugar |-> 0,
                          entries_this_week |-> 0]}
                 /\ get_user_preferred_units(u, up) =
                        (IF fallback_user_units[u] = "absent" THEN "mg/dL"
                         ELSE fallback_user_units[u])
                 /\ \A x \in Units :
                        update_user_preferred_units_users(u, x, up)
                            = [w \in Usernames |-> NoRow]
                 /\ ~user_exists(u, up))
    /\ [][db_available' = db_available]_vars

\* The store was not available at start-up: two saves have failed, and the
\* preferences set since then are served from the cache.
C30_Witness ==
    /\ ~db_available /\ next_id = MaxEntries + 1
    /\ fallback_user_units["alice"] = "mmol/L"
    /\ fallback_user_units["bob"] = "mg/dL"
    /\ get_user_preferred_units("alice", TRUE) = "mmol/L"

====
